---- MODULE Spec2Model ----
(***************************************************************************)
(* Model of the two notebooks of the repository:                           *)
(*   - Optimization_Using_Autodiff.ipynb: class newton_opt (Newton-type    *)
(*     iterations GD / GN / LM / EN / BFGS with optional Armijo            *)
(*     backtracking), applied to the residual f_vec_err;                   *)
(*   - Equality_constrained_optimization_QP.ipynb: function QP.            *)
(*                                                                         *)
(* Floating point numbers are modelled as decimal fixed-point numbers: the *)
(* integer v stands for v / Scale.  Every operation rounds its result to   *)
(* the nearest representable number; a result out of range is PInf or      *)
(* NInf, x / 0 is an infinity, 0 / 0, inf - inf and 0 * inf are NaN, and   *)
(* NaN propagates through arithmetic and makes every comparison false, as  *)
(* IEEE arithmetic does.  The parameter vector has length self.m = 1, so   *)
(* the m x m matrices B, J'J and the Hessian are 1 x 1.                    *)
(***************************************************************************)
EXTENDS Integers, Sequences, FiniteSets

\* ------------------------------------------------------------ bounds
MaxIt == 2
MaxCalls == 2
\* the largest finite magnitude of the fixed-point numbers
MaxMag == 200000000

\* ------------------------------------------------- fixed-point floats
Scale == 1000
One == Scale
\* the non-finite values: +inf, -inf (ordered like integers) and nan
PInf == 2000000000
NInf == -2000000000
NaN == 2100000000

IsFin(a) == a # NaN /\ a # PInf /\ a # NInf
Abs(n) == IF n < 0 THEN -n ELSE n
Sgn(n) == IF n > 0 THEN 1 ELSE IF n < 0 THEN -1 ELSE 0
Inf(sign) == IF sign < 0 THEN NInf ELSE PInf

\* n / d rounded to the nearest integer (halves upwards), n >= 0, d > 0
RDiv(n, d) == IF 2 * (n % d) >= d THEN (n \div d) + 1 ELSE n \div d

\* a finite result, or the infinity of its sign when it is out of range
Fix(n) == IF n > MaxMag THEN PInf ELSE IF n < -MaxMag THEN NInf ELSE n

FNeg(a) == IF a = NaN THEN NaN ELSE -a
FAdd(a, b) ==
    IF a = NaN \/ b = NaN THEN NaN
    ELSE IF ~IsFin(a) THEN (IF ~IsFin(b) /\ b # a THEN NaN ELSE a)
    ELSE IF ~IsFin(b) THEN b
    ELSE Fix(a + b)
FSub(a, b) == FAdd(a, FNeg(b))

\* |a| * |b| / Scale for finite a, b: the factors are split into their integer
\* and fractional parts so that no intermediate exceeds 32 bits
MulMag(a, b) ==
    LET ah == a \div Scale
        al == a % Scale
        bh == b \div Scale
        bl == b % Scale
    IN IF ah > 0 /\ bh > (MaxMag \div Scale) \div ah THEN PInf
       ELSE Fix(ah * bh * Scale + ah * bl + al * bh + RDiv(al * bl, Scale))
FMul(a, b) ==
    IF a = NaN \/ b = NaN THEN NaN
    ELSE IF ~IsFin(a) \/ ~IsFin(b)
         THEN (IF a = 0 \/ b = 0 THEN NaN ELSE Inf(Sgn(a) * Sgn(b)))
    ELSE LET mag == MulMag(Abs(a), Abs(b))
         IN IF Sgn(a) * Sgn(b) < 0 THEN FNeg(mag) ELSE mag

\* the fractional digits of r / b (0 <= r < b), rounded at the last one
RECURSIVE LongDiv(_, _, _)
LongDiv(r, b, sc) ==
    IF sc = 1 THEN (IF 2 * r >= b THEN 1 ELSE 0)
    ELSE ((r * 10) \div b) * (sc \div 10) + LongDiv((r * 10) % b, b, sc \div 10)
\* |a| / |b| * Scale for finite a and finite b # 0
DivMag(a, b) ==
    IF a \div b > MaxMag \div Scale THEN PInf
    ELSE Fix((a \div b) * Scale + LongDiv(a % b, b, Scale))
FDiv(a, b) ==
    IF a = NaN \/ b = NaN THEN NaN
    ELSE IF ~IsFin(a) THEN (IF ~IsFin(b) THEN NaN ELSE Inf(Sgn(a) * (IF b < 0 THEN -1 ELSE 1)))
    ELSE IF ~IsFin(b) THEN 0
    ELSE IF b = 0 THEN (IF a = 0 THEN NaN ELSE Inf(Sgn(a)))
    ELSE LET mag == DivMag(Abs(a), Abs(b))
         IN IF Sgn(a) * Sgn(b) < 0 THEN FNeg(mag) ELSE mag

\* comparisons: false when an operand is nan
FLt(a, b) == a # NaN /\ b # NaN /\ a < b
FGe(a, b) == a # NaN /\ b # NaN /\ a >= b

RECURSIVE ISqrtIn(_, _, _)
ISqrtIn(n, lo, hi) ==
    IF lo >= hi THEN lo
    ELSE LET mid == (lo + hi + 1) \div 2
         IN IF mid * mid <= n THEN ISqrtIn(n, mid, hi) ELSE ISqrtIn(n, lo, mid - 1)
\* the integer square root of n, 0 <= n < 2^31
ISqrt(n) == ISqrtIn(n, 0, 46340)
\* ** (0.5): sqrt(a * Scale), computed as 100 * sqrt(a * Scale / 10000) where
\* a * Scale does not fit 32 bits
FSqrt(a) ==
    IF a = NaN \/ a < 0 THEN NaN
    ELSE IF a = PInf THEN PInf
    ELSE IF a <= 2 * Scale * Scale THEN ISqrt(a * Scale)
    ELSE ISqrt(a \div (10000 \div Scale)) * 100

\* ---------------------------------------- data and residual function
\* One data point: the state (t0, t1, t2) and the target Y.
Pt(a0, a1, a2, y) == [t0 |-> a0, t1 |-> a1, t2 |-> a2, Y |-> y]
\* The data sets the optimizer is run on (fixed-point values).
DataSets ==
    { << Pt(0, One, 0, One), Pt(0, One, 0, 2 * One) >>,
      << Pt(0, 0, One, One) >>,
      << Pt(0, One, 0, One) >> }

RECURSIVE SumSeq(_)
SumSeq(s) == IF s = << >> THEN 0 ELSE FAdd(Head(s), SumSeq(Tail(s)))

\* f_vec_err: err_ = Y - (mean(x*x)*t2 + mean(x)*t1 + 1*t0), one entry per data point
f_vec_err(d, xx) ==
    [j \in 1..Len(d) |->
        FSub(d[j].Y, FAdd(FAdd(FMul(FMul(xx, xx), d[j].t2), FMul(xx, d[j].t1)), d[j].t0))]
\* the derivative of f_vec_err's entries with respect to x, and the second derivative
Dfcn(d, xx) ==
    [j \in 1..Len(d) |-> FNeg(FAdd(FMul(FMul(2 * One, xx), d[j].t2), d[j].t1))]
D2fcn(d, xx) == [j \in 1..Len(d) |-> FNeg(FMul(2 * One, d[j].t2))]

Dot(u, v) == SumSeq([j \in 1..Len(u) |-> FMul(u[j], v[j])])

\* f_sq_err(fcn): reduce_sum(err_ * err_)
fs(d, xx) == LET e == f_vec_err(d, xx) IN Dot(e, e)

ScalarMethods == {"GD", "EN", "BFGS"}
Methods == {"GD", "GN", "LM", "EN", "BFGS"}

\* self.f(x) as a vector: the residual, or for GD/EN/BFGS the one-entry squared error
f(meth, d, xx) == IF meth \in ScalarMethods THEN << fs(d, xx) >> ELSE f_vec_err(d, xx)

\* jacob(x): the Jacobian of self.f, reshaped (-1, m) with m = 1: one entry per row
jacob(meth, d, xx) ==
    IF meth \in ScalarMethods
    THEN << FMul(2 * One, Dot(f_vec_err(d, xx), Dfcn(d, xx))) >>
    ELSE Dfcn(d, xx)

\* hess(x): the Hessian of the scalar squared error
hess(d, xx) ==
    FMul(2 * One, FAdd(Dot(Dfcn(d, xx), Dfcn(d, xx)), Dot(f_vec_err(d, xx), D2fcn(d, xx))))

\* tf.linalg.pinv of a 1 x 1 matrix: a zero singular value is not inverted, a
\* non-finite matrix has no finite decomposition
pinv(b) == IF ~IsFin(b) THEN NaN ELSE IF b = 0 THEN 0 ELSE FDiv(One, b)

\* np.linalg.norm of a vector of length 1
Norm(v) == IF v = NaN THEN NaN ELSE Abs(v)

\* =================================================================
\* Equality_constrained_optimization_QP.ipynb
\*
\* QP is modelled in exact rational arithmetic (a rational is <<p, q>> with
\* q > 0 in lowest terms), on arguments of the shapes B: N0 x N0, c: N0,
\* A: M0 x N0, b: M0 with integer entries, A having an integer Euclidean norm.

\* the shapes of the arguments
N0 == 2
M0 == 1

RECURSIVE GCD(_, _)
GCD(a, b) == IF b = 0 THEN a ELSE GCD(b, a % b)
Rat(p, q) ==
    LET g == GCD(Abs(p), Abs(q))
    IN IF q < 0 THEN << (-p) \div g, (-q) \div g >> ELSE << p \div g, q \div g >>
RInt(n) == << n, 1 >>
RAdd(u, v) == Rat(u[1] * v[2] + v[1] * u[2], u[2] * v[2])
RNeg(u) == << -u[1], u[2] >>
RSub(u, v) == RAdd(u, RNeg(v))
RMul(u, v) == Rat(u[1] * v[1], u[2] * v[2])
RQuo(u, v) == Rat(u[1] * v[2], u[2] * v[1])

\* a matrix: nr rows, nc columns, entries at[<<r, c>>]; a vector is one column
Idx(r, c) == (1..r) \X (1..c)
Mat(r, c, ent) == [nr |-> r, nc |-> c, at |-> ent]
ZeroMat(r, c) == Mat(r, c, [rc \in Idx(r, c) |-> RInt(0)])
\* an integer matrix given by its rows, and an integer vector given by its entries
OfRows(rows) ==
    Mat(Len(rows), IF rows = << >> THEN 0 ELSE Len(rows[1]), [rc \in Idx(Len(rows), IF rows = << >> THEN 0 ELSE Len(rows[1])) |-> RInt(rows[rc[1]][rc[2]])])
OfVec(v) == Mat(Len(v), 1, [rc \in Idx(Len(v), 1) |-> RInt(v[rc[1]])])
\* the entries of a vector, in order
Entries(v) == [j \in 1..v.nr |-> v.at[<<j, 1>>]]

RECURSIVE MulSum(_, _, _, _, _)
MulSum(X, Y, j, k, l) ==
    IF l = 0 THEN RInt(0)
    ELSE RAdd(MulSum(X, Y, j, k, l - 1), RMul(X.at[<<j, l>>], Y.at[<<l, k>>]))
\* X @ Y
MatMul(X, Y) == Mat(X.nr, Y.nc, [rc \in Idx(X.nr, Y.nc) |-> MulSum(X, Y, rc[1], rc[2], X.nc)])
\* X.T
Tr(X) == Mat(X.nc, X.nr, [rc \in Idx(X.nc, X.nr) |-> X.at[<<rc[2], rc[1]>>]])
MatAdd(X, Y) == Mat(X.nr, X.nc, [rc \in Idx(X.nr, X.nc) |-> RAdd(X.at[<<rc[1], rc[2]>>], Y.at[<<rc[1], rc[2]>>])])
MatNeg(X) == Mat(X.nr, X.nc, [rc \in Idx(X.nr, X.nc) |-> RNeg(X.at[<<rc[1], rc[2]>>])])
MatScale(X, u) == Mat(X.nr, X.nc, [rc \in Idx(X.nr, X.nc) |-> RMul(X.at[<<rc[1], rc[2]>>], u)])
Min(a, b) == IF a < b THEN a ELSE b
\* X[:, lo:] and X[:, :hi], X[:hi, :] and X[lo:] for 0 <= lo, hi: slices clip
ColsFrom(X, lo) == Mat(X.nr, X.nc - Min(lo, X.nc), [rc \in Idx(X.nr, X.nc - Min(lo, X.nc)) |-> X.at[<<rc[1], rc[2] + Min(lo, X.nc)>>]])
ColsTo(X, hi) == Mat(X.nr, Min(hi, X.nc), [rc \in Idx(X.nr, Min(hi, X.nc)) |-> X.at[<<rc[1], rc[2]>>]])
RowsTo(X, hi) == Mat(Min(hi, X.nr), X.nc, [rc \in Idx(Min(hi, X.nr), X.nc) |-> X.at[<<rc[1], rc[2]>>]])
RowsFrom(X, lo) == Mat(X.nr - Min(lo, X.nr), X.nc, [rc \in Idx(X.nr - Min(lo, X.nr), X.nc) |-> X.at[<<rc[1] + Min(lo, X.nr), rc[2]>>]])

RECURSIVE SqSum(_, _)
SqSum(X, l) ==
    IF l = 0 THEN RInt(0)
    ELSE LET j == ((l - 1) \div X.nc) + 1
             k == ((l - 1) % X.nc) + 1
         IN RAdd(SqSum(X, l - 1), RMul(X.at[<<j, k>>], X.at[<<j, k>>]))
\* the squared Frobenius norm
Frob2(X) == SqSum(X, X.nr * X.nc)

Det2(X) == RSub(RMul(X.at[<<1, 1>>], X.at[<<2, 2>>]), RMul(X.at[<<1, 2>>], X.at[<<2, 1>>]))
\* the minor of a 3 x 3 matrix without row j and column k
Minor3(X, j, k) ==
    LET rr == IF j = 1 THEN << 2, 3 >> ELSE IF j = 2 THEN << 1, 3 >> ELSE << 1, 2 >>
        cc == IF k = 1 THEN << 2, 3 >> ELSE IF k = 2 THEN << 1, 3 >> ELSE << 1, 2 >>
    IN RSub(RMul(X.at[<<rr[1], cc[1]>>], X.at[<<rr[2], cc[2]>>]),
            RMul(X.at[<<rr[1], cc[2]>>], X.at[<<rr[2], cc[1]>>]))
Det3(X) ==
    RAdd(RSub(RMul(X.at[<<1, 1>>], Minor3(X, 1, 1)), RMul(X.at[<<1, 2>>], Minor3(X, 1, 2))),
         RMul(X.at[<<1, 3>>], Minor3(X, 1, 3)))
Inv2(X) ==
    Mat(2, 2, [rc \in Idx(2, 2) |->
        RQuo(IF rc[1] = rc[2] THEN X.at[<<3 - rc[1], 3 - rc[2]>>] ELSE RNeg(X.at[rc]), Det2(X))])
Inv3(X) ==
    Mat(3, 3, [rc \in Idx(3, 3) |->
        RQuo(IF (rc[1] + rc[2]) % 2 = 0 THEN Minor3(X, rc[2], rc[1])
             ELSE RNeg(Minor3(X, rc[2], rc[1])), Det3(X))])

\* the Moore-Penrose pseudo-inverse of the matrices the calls meet: those
\* without entries, of rank at most one, and the invertible 2 x 2 and 3 x 3
Pinv(X) ==
    IF X.nr = 0 \/ X.nc = 0 \/ Frob2(X) = RInt(0) THEN ZeroMat(X.nc, X.nr)
    ELSE IF X.nr = 2 /\ X.nc = 2 /\ Det2(X) # RInt(0) THEN Inv2(X)
    ELSE IF X.nr = 3 /\ X.nc = 3 THEN Inv3(X)
    ELSE MatScale(Tr(X), RQuo(RInt(1), Frob2(X)))
\* np.linalg.lstsq(X, y)[0]: the least-squares solution of minimum norm
lstsq(X, y) == MatMul(Pinv(X), y)

\* the Euclidean norm of an integer vector whose norm is an integer
IntNorm(v) == ISqrt(v[1] * v[1] + v[2] * v[2])
\* np.linalg.qr(A.T, mode='complete') for a 1 x 2 A: the Householder reflector
\* H with H a = beta e1, beta = -sign(a1) |a| (H = I, beta = a1 when a2 = 0)
QrBeta(a) == IF a[2] = 0 THEN a[1] ELSE IF a[1] < 0 THEN IntNorm(a) ELSE -IntNorm(a)
QrQ(a) ==
    IF a[2] = 0 THEN Mat(2, 2, [rc \in Idx(2, 2) |-> RInt(IF rc[1] = rc[2] THEN 1 ELSE 0)])
    ELSE LET beta == RInt(QrBeta(a))
             tau == RQuo(RSub(beta, RInt(a[1])), beta)
             v == << RInt(1), RQuo(RInt(a[2]), RSub(RInt(a[1]), beta)) >>
         IN Mat(2, 2, [rc \in Idx(2, 2) |->
                RSub(RInt(IF rc[1] = rc[2] THEN 1 ELSE 0), RMul(tau, RMul(v[rc[1]], v[rc[2]])))])
QrR(a) == Mat(2, 1, [rc \in Idx(2, 1) |-> RInt(IF rc[1] = 1 THEN QrBeta(a) ELSE 0)])

\* what a call gives: the returned (x, lambda_), or the exception it raises
Returns(xv, lv) == [raised |-> "", x |-> Entries(xv), lambda_ |-> Entries(lv)]
Raises(e) == [raised |-> e, x |-> << >>, lambda_ |-> << >>]

\* the NullSpace branch, reading the module-level m
QPNullSpace(Bm, cv, Am, bv, m) ==
    LET q == QrQ(Am[1])
        r == QrR(Am[1])
        Z == ColsFrom(q, m)
        Y == ColsTo(q, m)
        Rp == RowsTo(r, m)
        x_special == lstsq(OfRows(Am), MatNeg(OfVec(bv)))
        a_ == MatMul(MatMul(Tr(Z), OfRows(Bm)), Z)
        b_ == MatAdd(MatMul(Tr(Z), OfVec(cv)), MatMul(MatMul(Tr(Z), OfRows(Bm)), x_special))
        x_g == lstsq(a_, MatNeg(b_))
        xx == MatAdd(MatMul(Z, x_g), x_special)
        lambda_ == lstsq(Rp, MatNeg(MatMul(Tr(Y), MatAdd(MatMul(OfRows(Bm), xx), OfVec(cv)))))
    IN Returns(xx, lambda_)

\* the matrix nA_ and the vector nb_ of the naive branch for module-level n = N0
\* and m: the blocks B, A (its row repeated over the m rows) and A.T
NaiveKkt(Bm, Am, m) ==
    Mat(N0 + m, N0 + m, [rc \in Idx(N0 + m, N0 + m) |->
        IF rc[1] <= N0 /\ rc[2] <= N0 THEN RInt(Bm[rc[1]][rc[2]])
        ELSE IF rc[1] > N0 /\ rc[2] <= N0 THEN RInt(Am[1][rc[2]])
        ELSE IF rc[1] <= N0 /\ rc[2] > N0 THEN RInt(Am[1][rc[1]])
        ELSE RInt(0)])
NaiveRhs(cv, bv, m) ==
    Mat(N0 + m, 1, [rc \in Idx(N0 + m, 1) |-> RInt(IF rc[1] <= N0 THEN -cv[rc[1]] ELSE -bv[1])])
\* the naive branch, reading the module-level n and m; B of shape (N0, N0) is
\* assigned to nA_[:n, :n], which numpy refuses for another n
QPNaive(Bm, cv, Am, bv, n, m) ==
    IF n # N0 THEN Raises("ValueError")
    ELSE LET x_lambda == lstsq(NaiveKkt(Bm, Am, m), NaiveRhs(cv, bv, m))
         IN Returns(RowsTo(x_lambda, n), RowsFrom(x_lambda, n))

\* QP(B, c, A, b, method) run with the module-level n and m
QP(Bm, cv, Am, bv, meth, n, m) ==
    IF meth = "NullSpace" THEN QPNullSpace(Bm, cv, Am, bv, m)
    ELSE QPNaive(Bm, cv, Am, bv, n, m)

\* a call with the module-level names as they are: unbound names raise
QPCall(Bm, cv, Am, bv, meth, g) ==
    IF g = << >> THEN Raises("NameError")
    ELSE QP(Bm, cv, Am, bv, meth, g[1], g[2])

\* the arguments the model calls QP with
BSet == { << <<2, 0>>, <<0, 1>> >>, << <<1, 2>>, <<2, 1>> >> }
CSet == { <<-1, 2>> }
ASet == { << <<1, 0>> >>, << <<3, 4>> >> }
BvSet == { <<1>> }
MethodSet == { "NullSpace", "None" }
\* the values the module-level (n, m) are assigned
GlobalsSet == { << 2, 1 >>, << 2, 0 >>, << 7, 2 >> }

\* the reduced Hessian Z'BZ for the null-space basis z = (-a2, a1) of A
ReducedHessian(Bm, Am) ==
    LET z == << -Am[1][2], Am[1][1] >>
    IN z[1] * (Bm[1][1] * z[1] + Bm[1][2] * z[2]) + z[2] * (Bm[2][1] * z[1] + Bm[2][2] * z[2])
\* A has full row rank and the reduced Hessian is positive definite
WellPosed(Bm, Am) == Am[1] # <<0, 0>> /\ ReducedHessian(Bm, Am) > 0

\* ------------------------------------------------------- the program
VARIABLES
    data,      \* the module-level data set (t0, t1, t2, Y) that f_vec_err reads
    method,    \* self.method
    alpha,     \* self.alpha
    eps,       \* self.eps
    global_,   \* self.global_
    x0,        \* the x0 the instance was constructed with
    x,         \* self.x
    pc,        \* where optimize is: idle, direction, linesearch, update, exit
    ncalls,    \* the number of optimize calls made on the instance
    max_it,    \* the max_it of the running (or last) call
    i, B, gradf, dx, t, xold,   \* the locals of optimize
    c1, c2,    \* the denominators of the last BFGS update
    rawdx,     \* the direction -pinv(B)*gradf before the line search scales it
    Bdir,      \* the B the last direction was computed from
    report,    \* what the last exit printed: iteration, fitting error, warning
    ret,       \* the values the calls returned so far, in order
    nm,        \* the QP notebook's module-level (n, m); << >> while undefined
    prev,      \* the QP call before the last one
    last       \* the last QP call: arguments, the (n, m) it read, what it gave

vars == << data, method, alpha, eps, global_, x0, x, pc, ncalls, max_it,
           i, B, gradf, dx, t, xold, c1, c2, rawdx, Bdir, report, ret,
           nm, prev, last >>

config == << data, method, alpha, eps, global_, x0 >>
locals == << i, B, gradf, dx, t, xold, c1, c2, rawdx, Bdir >>
\* the state of the QP notebook, which no statement of newton_opt touches
qpbook == << nm, prev, last >>

\* no QP call yet
NoCall == [args |-> << >>, method |-> "", nm |-> << >>, out |-> Raises("")]
NoReport == [iter |-> 0, err |-> 0, warn |-> FALSE]

\* the inputs the instances are constructed with
X0Set == { -1000, -500, 0, 440, 1500 }
AlphaSet == { 100 }
EpsSet == { 1, 100 }

\* gamma_, beta_, the initial t and the floor of the line search
gamma_ == Scale \div 10
beta_ == (8 * Scale) \div 10
TInit == One
TFloor == Scale \div 10

\* __init__
Init ==
    /\ data \in DataSets
    /\ method \in Methods
    /\ \E a \in AlphaSet : alpha = IF method = "GN" THEN 0 ELSE a
    /\ eps \in EpsSet
    /\ global_ \in BOOLEAN
    /\ x0 \in X0Set
    /\ x = x0
    /\ pc = "idle"
    /\ ncalls = 0
    /\ max_it = 0
    /\ i = 0 /\ B = One /\ gradf = 0 /\ dx = 0 /\ t = TInit /\ xold = x0
    /\ c1 = One /\ c2 = One /\ rawdx = 0 /\ Bdir = One
    /\ report = NoReport
    /\ ret = << >>
    /\ nm = << >>
    /\ prev = NoCall
    /\ last = NoCall

\* optimize(max_it) starting again from the x0 of the constructor
OptimizeFromX0(mi) ==
    /\ pc = "idle"
    /\ ncalls < MaxCalls
    /\ ncalls' = ncalls + 1
    /\ max_it' = mi
    /\ i' = 0
    /\ B' = One
    /\ x' = x0
    /\ pc' = "direction"
    /\ UNCHANGED << qpbook, config, gradf, dx, t, xold, c1, c2, rawdx, Bdir, report, ret >>
\* optimize(max_it): i = 0, B = eye
Optimize(mi) ==
    /\ pc = "idle"
    /\ ncalls < MaxCalls
    /\ ncalls' = ncalls + 1
    /\ max_it' = mi
    /\ i' = 0
    /\ B' = One
    /\ pc' = "direction"
    /\ UNCHANGED << qpbook, config, x, gradf, dx, t, xold, c1, c2, rawdx, Bdir, report, ret >>

\* gradf of one iteration
Gradf(meth, d, xx) ==
    IF meth \in ScalarMethods
    THEN jacob(meth, d, xx)[1]
    ELSE Dot(jacob(meth, d, xx), f(meth, d, xx))

\* B of one iteration, BFGS starting again from the identity
CurvatureResets(meth, d, xx, al, b) ==
    CASE meth = "GD" -> FDiv(One, al)
      [] meth \in {"GN", "LM"} -> FAdd(Dot(jacob(meth, d, xx), jacob(meth, d, xx)), al)
      [] meth = "EN" -> hess(d, xx)
      [] OTHER -> One
\* B of one iteration; BFGS keeps the B it has
Curvature(meth, d, xx, al, b) ==
    CASE meth = "GD" -> FDiv(One, al)
      [] meth \in {"GN", "LM"} -> FAdd(Dot(jacob(meth, d, xx), jacob(meth, d, xx)), al)
      [] meth = "EN" -> hess(d, xx)
      [] OTHER -> b

\* dx = -matmul(invB, gradf)
StepOf(b, g) == FNeg(FMul(pinv(b), g))

\* the top of the loop body: gradf, B, invB, dx, and t = 1 when line search is on
Direction ==
    /\ pc = "direction"
    /\ LET g == Gradf(method, data, x)
           b == Curvature(method, data, x, alpha, B)
       IN /\ gradf' = g
          /\ B' = b
          /\ Bdir' = b
          /\ dx' = StepOf(b, g)
          /\ rawdx' = StepOf(b, g)
    /\ t' = IF global_ THEN TInit ELSE t
    /\ pc' = IF global_ THEN "linesearch" ELSE "update"
    /\ UNCHANGED << qpbook, config, x, ncalls, max_it, i, xold, c1, c2, report, ret >>

\* fs(x + t*dx) < fs(x) + gamma_*t*sum(gradf*dx)
ArmijoRhs(d, xx, g, step, tt) == FAdd(fs(d, xx), FMul(FMul(gamma_, tt), FMul(g, step)))
\* the test failing only when the objective is strictly above the bound
ArmijoFailsStrictly(d, xx, g, step, tt) ==
    FLt(ArmijoRhs(d, xx, g, step, tt), fs(d, FAdd(xx, FMul(tt, step))))
\* the Armijo part of the loop condition: fs(x + t*dx) >= the bound
ArmijoFails(d, xx, g, step, tt) ==
    FGe(fs(d, FAdd(xx, FMul(tt, step))), ArmijoRhs(d, xx, g, step, tt))

\* the condition of the while loop of the line search
Backtrack(d, xx, g, step, tt) == ArmijoFails(d, xx, g, step, tt) \/ tt < TFloor

\* one pass of the while loop: t = beta_*t
LineSearchStep ==
    /\ pc = "linesearch"
    /\ Backtrack(data, x, gradf, dx, t)
    /\ t' = FMul(beta_, t)
    /\ UNCHANGED << qpbook, config, x, pc, ncalls, max_it, i, B, gradf, dx, xold, c1, c2,
                    rawdx, Bdir, report, ret >>

\* the while loop ends: dx = t*dx
LineSearchExit ==
    /\ pc = "linesearch"
    /\ ~Backtrack(data, x, gradf, dx, t)
    /\ dx' = FMul(t, dx)
    /\ pc' = "update"
    /\ UNCHANGED << qpbook, config, x, ncalls, max_it, i, B, gradf, t, xold, c1, c2,
                    rawdx, Bdir, report, ret >>

\* the BFGS update of B from s = dx and y = jacob(x_new) - jacob(x_old)
BfgsC1(b, s) == FMul(FMul(s, b), s)
BfgsC2(s, y) == FMul(s, y)
BfgsUpdate(b, s, y) ==
    LET Bs == FMul(b, s)
    IN FAdd(FSub(b, FMul(FDiv(One, BfgsC1(b, s)), FMul(Bs, Bs))),
            FMul(FDiv(One, BfgsC2(s, y)), FMul(y, y)))
BfgsY(meth, d, xnew, xo) == FSub(jacob(meth, d, xnew)[1], jacob(meth, d, xo)[1])

\* Update: xold, self.x = self.x + dx, the BFGS update, i = i + 1
Update ==
    /\ pc = "update"
    /\ xold' = x
    /\ x' = FAdd(x, dx)
    /\ IF method = "BFGS"
       THEN LET y == BfgsY(method, data, FAdd(x, dx), x)
            IN /\ c1' = BfgsC1(B, dx)
               /\ c2' = BfgsC2(dx, y)
               /\ B' = BfgsUpdate(B, dx, y)
       ELSE UNCHANGED << B, c1, c2 >>
    /\ i' = i + 1
    /\ pc' = "exit"
    /\ UNCHANGED << qpbook, config, ncalls, max_it, gradf, dx, t, rawdx, Bdir, report, ret >>

\* the exit condition with the budget test off by one
ExitCondOffByOne(step, e, it, mi) == FLt(Norm(step), e) \/ it >= mi
\* the exit condition of the loop
ExitCond(step, e, it, mi) == FLt(Norm(step), e) \/ it > mi
\* the warning with the budget test off by one
WarnsOffByOne(it, mi) == it >= mi
\* the warning is printed
Warns(it, mi) == it > mi
\* np.dot(err_, err_)**(0.5) with err_ = self.f(self.x)
FittingError(meth, d, xx) == FSqrt(Dot(f(meth, d, xx), f(meth, d, xx)))

\* the exit test is true: print the report, break, return self.x
Exit ==
    /\ pc = "exit"
    /\ ExitCond(dx, eps, i, max_it)
    /\ report' = [iter |-> i, err |-> FittingError(method, data, x), warn |-> Warns(i, max_it)]
    /\ ret' = Append(ret, x)
    /\ pc' = "idle"
    /\ UNCHANGED << qpbook, config, x, ncalls, max_it, locals >>

\* the exit test is false: the next iteration
Continue ==
    /\ pc = "exit"
    /\ ~ExitCond(dx, eps, i, max_it)
    /\ pc' = "direction"
    /\ UNCHANGED << qpbook, config, x, ncalls, max_it, locals, report, ret >>

Next ==
    \/ \E mi \in 0..MaxIt : Optimize(mi)
    \/ Direction
    \/ LineSearchStep
    \/ LineSearchExit
    \/ Update
    \/ Exit
    \/ Continue

Spec == Init /\ [][Next]_vars

\* ------------------------------------------ the QP notebook as a program
\* the newton_opt instance, which no statement of the QP notebook touches
instance == << config, x, pc, ncalls, max_it, locals, report, ret >>

\* n = ..., m = ... at module level
SetGlobals(n, m) ==
    /\ nm' = << n, m >>
    /\ UNCHANGED << instance, prev, last >>

\* x, lambda_ = QP(B, c, A, b, method)
CallQP(Bm, cv, Am, bv, meth) ==
    /\ prev' = last
    /\ last' = [args |-> << Bm, cv, Am, bv >>, method |-> meth, nm |-> nm,
                out |-> QPCall(Bm, cv, Am, bv, meth, nm)]
    /\ UNCHANGED << instance, nm >>

\* the notebook after the cell that defines QP has run
InitQP ==
    /\ Init
    /\ data = << Pt(0, One, 0, One) >> /\ method = "GN" /\ eps = 1 /\ ~global_ /\ x0 = 0

NextQP ==
    \/ \E g \in GlobalsSet : SetGlobals(g[1], g[2])
    \/ \E Bm \in BSet, cv \in CSet, Am \in ASet, bv \in BvSet, meth \in MethodSet :
          CallQP(Bm, cv, Am, bv, meth)

SpecQP == InitQP /\ [][NextQP]_vars

\* a call has returned and no other call has started
Returned == pc = "idle" /\ ret # << >>

\* ------------------------------------------------------------ claims

\* C1: with line search on, the backtracking loop leaves as soon as the Armijo
\* test passes or as soon as t is below 0.1, so it always terminates.
C1_LineSearchLeavesAtFloor ==
    [][(pc = "linesearch" /\ (~ArmijoFails(data, x, gradf, dx, t) \/ t < TFloor))
        => pc' = "update"]_vars

\* the number of statements a call without line search has left at most
Remaining ==
    3 * (max_it + 1 - i)
    + (CASE pc = "exit" -> 3 [] pc = "direction" -> 2 [] pc = "update" -> 1 [] OTHER -> 0)

\* C2: with line search off, a call makes at most max_it + 1 iterations, leaves
\* the loop at the first iteration with ||dx|| < eps or i > max_it and returns the
\* iterate x + dx of that iteration; it always terminates: the loop never enters
\* the line search and every statement lowers Remaining, which is never negative.
C2_TerminatesWithoutLineSearch ==
    [][~global_ =>
        /\ i <= max_it + 1 /\ i' <= max_it' + 1
        /\ Remaining >= 0 /\ Remaining' >= 0
        /\ pc' \in {"idle", "direction", "update", "exit"}
        /\ (pc # "idle" => Remaining' < Remaining)
        /\ (pc = "exit" =>
              IF FLt(Norm(dx), eps) \/ i > max_it
              THEN pc' = "idle" /\ ret' = Append(ret, FAdd(xold, dx))
              ELSE pc' = "direction" /\ ret' = ret)]_vars
C2_Witness ==
    /\ Returned /\ ~global_
    /\ max_it = MaxIt /\ i = max_it + 1
    /\ ~FLt(Norm(dx), eps)

\* C3: for BFGS, an update whose denominator s'Bs or s'y is zero aborts the
\* optimization with an error, and no B holding the result of a division by
\* zero is produced.
C3_DegenerateBfgsUpdateFails ==
    (method = "BFGS" /\ pc = "exit" /\ (c1 = 0 \/ c2 = 0)) => IsFin(B)

\* C4 (as stated): an exit with ||dx|| < eps prints no warning and an exit with
\* ||dx|| >= eps prints it; the last iterate is returned.
C4_WarningIffNotConverged ==
    Returned =>
        /\ FLt(Norm(dx), eps) => ~report.warn
        /\ FGe(Norm(dx), eps) => report.warn
        /\ ret[Len(ret)] = x
\* C4 (amended): the warning is printed exactly when the loop is left with
\* i > max_it: every exit with ||dx|| >= eps prints it, an exit with
\* ||dx|| < eps prints it only when that iteration is number max_it + 1; the
\* last iterate is returned.
C4_WarningIffBudgetExceeded ==
    Returned =>
        /\ report.warn <=> i > max_it
        /\ ~FLt(Norm(dx), eps) => report.warn
        /\ (FLt(Norm(dx), eps) /\ i <= max_it) => ~report.warn
        /\ ret[Len(ret)] = x
C4_Witness ==
    /\ Returned /\ report.warn /\ FLt(Norm(dx), eps) /\ max_it > 0

\* C5: with line search on, for every method the squared error at the updated
\* iterate is not larger than at the iterate before the update.
C5_ObjectiveNonIncreasing ==
    (global_ /\ pc = "exit") => ~FLt(fs(data, xold), fs(data, x))

\* C6: the printed fitting error is the Euclidean norm of the residual vector
\* at the final iterate, for every method, and the printed iteration is the
\* number of iterations made.
C6_ReportIsResidualNorm ==
    Returned =>
        /\ report.err = FSqrt(Dot(f_vec_err(data, x), f_vec_err(data, x)))
        /\ report.iter = i

\* C9: for BFGS, the B of iteration 0 is the identity and the B of iteration
\* k + 1 is the BFGS update of the B of iteration k, with s the step taken
\* (scaled by the line search) and y the difference of the gradients at the new
\* and the old iterate.
C9_BfgsCarriesB ==
    [][(method = "BFGS" /\ pc = "direction") =>
         Bdir' = IF i = 0 THEN One
                 ELSE BfgsUpdate(Bdir, IF global_ THEN FMul(t, rawdx) ELSE rawdx,
                                 FSub(jacob("BFGS", data, x)[1], jacob("BFGS", data, xold)[1]))]_vars
C9_Witness ==
    /\ method = "BFGS" /\ pc = "update" /\ i = 1 /\ global_ /\ t < TInit
    /\ Bdir # One /\ Bdir # NaN /\ dx # 0 /\ dx # NaN

\* the values 0.8^k of t, k in 0..10
RECURSIVE TPower(_)
TPower(k) == IF k = 0 THEN TInit ELSE FMul(beta_, TPower(k - 1))

\* C10: when the line search loop is left, t is 0.8^k for a k in 0..10, t >= 0.1,
\* and the strict Armijo inequality holds: no step failing it is applied to x.
C10_AcceptedStepSatisfiesArmijo ==
    (global_ /\ pc = "update") =>
        /\ \E k \in 0..10 : t = TPower(k)
        /\ t >= TFloor
        /\ FLt(fs(data, FAdd(x, FMul(t, rawdx))), ArmijoRhs(data, x, gradf, rawdx, t))
        /\ dx = FMul(t, rawdx)
C10_Witness ==
    /\ global_ /\ pc = "update" /\ (\E k \in 4..10 : t = TPower(k)) /\ dx # 0

\* two QP calls in a row with the same arguments
SameCall == prev.args # << >> /\ prev.args = last.args /\ prev.method = last.method
\* two QP calls in a row on the same well-posed problem, one per method
BothMethods ==
    /\ prev.args # << >> /\ prev.args = last.args
    /\ WellPosed(last.args[1], last.args[3])
    /\ prev.method = "NullSpace" /\ last.method # "NullSpace"

\* C7: two QP calls with identical (B, c, A, b, method) return identical
\* (x, lambda), whatever the module-level n and m are at each call
C7_QPIsPure == SameCall => prev.out = last.out

\* C8: on a well-posed problem the NullSpace method and the naive method
\* return the same x and the same lambda
C8_MethodsAgree == BothMethods => (last.out.raised = "" /\ prev.out = last.out)

\* with the module-level n and m the dimensions of A at both calls, the two
\* methods agree on a well-posed problem, and equal calls give equal results
MethodsAgreeOnMatchingGlobals ==
    (BothMethods /\ prev.nm = << N0, M0 >> /\ last.nm = << N0, M0 >>)
        => (last.out.raised = "" /\ prev.out = last.out)
PureOnMatchingGlobals == (SameCall /\ prev.nm = last.nm) => prev.out = last.out

\* C11: when optimize returns, self.x is the returned iterate; a call starts
\* with i = 0 and B the identity from the self.x the instance has, which after
\* a call is the iterate that call returned and not the x0 of the constructor,
\* and its first direction is computed at that iterate; no statement of a call
\* changes method, alpha, eps or global_.
C11_CallsContinueFromReturnedIterate ==
    [][/\ << method, alpha, eps, global_ >>' = << method, alpha, eps, global_ >>
       /\ (pc # "idle" /\ pc' = "idle") => (x' = x /\ ret' = Append(ret, x))
       /\ (pc = "idle" /\ pc' # "idle") =>
             /\ i' = 0 /\ B' = One /\ pc' = "direction"
             /\ x' = x
             /\ ret # << >> => x' = ret[Len(ret)]
       /\ (pc = "direction" /\ i = 0) =>
             /\ ret # << >> => x = ret[Len(ret)]
             /\ rawdx' = StepOf(Curvature(method, data, x, alpha, One),
                                Gradf(method, data, x))]_vars
C11_Witness ==
    /\ ncalls = 2 /\ pc = "update" /\ i = 0 /\ method = "BFGS"
    /\ ret # << >> /\ x = ret[Len(ret)] /\ x # x0 /\ rawdx # 0
====
